---------------------------- MODULE Spec2Model ----------------------------
(***************************************************************************)
(* The streaming chat turn of backend/tutor_chat/chat_service.py           *)
(* (CodeAssistChatService.get_chat_response) as a state machine, with the  *)
(* service's construction and the chat route of chat_router.py.            *)
(*                                                                         *)
(* A text (a Python str) is a sequence of one-character strings; the long  *)
(* literals of the source that no operation looks into are written as a    *)
(* sequence of one element holding the whole literal.  An Optional value   *)
(* is a set of at most one element: None is {} and a present value v is    *)
(* {v}.  An exception is a record [type, detail], detail being str(e).     *)
(***************************************************************************)
EXTENDS Integers, Sequences, FiniteSets, TLC

(* ------------------------------ bounds --------------------------------- *)

\* Most fragments the streamed completion yields before it ends or fails.
MaxFragments == 2

\* Most pieces a message of PromptSpec is composed of.
MaxParts == 3

(* --------------------------- Optional values --------------------------- *)

None == {}

Some(v) == {v}

Get(o) == CHOOSE v \in o : TRUE

\* Mutant of Falsy: "is None" instead of truthiness.
FalsyIsNone(o) == o = None

\* Python truthiness of an Optional[str]: None and "" are falsy.
Falsy(o) == o = None \/ o = Some(<<>>)

(* -------------------------------- str ---------------------------------- *)

UpperChars == <<"A", "B", "C", "D", "E", "F", "G", "H", "I", "J", "K", "L", "M",
                "N", "O", "P", "Q", "R", "S", "T", "U", "V", "W", "X", "Y", "Z">>

LowerChars == <<"a", "b", "c", "d", "e", "f", "g", "h", "i", "j", "k", "l", "m",
                "n", "o", "p", "q", "r", "s", "t", "u", "v", "w", "x", "y", "z">>

LowerChar(c) ==
    IF \E i \in 1..Len(UpperChars) : UpperChars[i] = c
    THEN LowerChars[CHOOSE i \in 1..Len(UpperChars) : UpperChars[i] = c]
    ELSE c

\* str.lower()
Lower(s) == [i \in 1..Len(s) |-> LowerChar(s[i])]

\* p in s
Contains(s, p) ==
    \E i \in 0..(Len(s) - Len(p)) : SubSeq(s, i + 1, i + Len(p)) = p

Whitespace == {" ", "\t", "\n"}

\* bool(q.strip())
StripTruthy(q) == \E i \in 1..Len(q) : q[i] \notin Whitespace

\* len(q.split())
WordCount(q) ==
    Cardinality({i \in 1..Len(q) :
                   /\ q[i] \notin Whitespace
                   /\ (i = 1 \/ q[i - 1] \in Whitespace)})

RECURSIVE Concat(_)
Concat(ss) == IF ss = <<>> THEN <<>> ELSE Head(ss) \o Concat(Tail(ss))

RECURSIVE SeqsUpTo(_, _)
\* The sequences of at most n elements of S.
SeqsUpTo(S, n) ==
    IF n = 0 THEN {<<>>}
    ELSE LET shorter == SeqsUpTo(S, n - 1)
         IN  shorter \cup {Append(s, x) : s \in shorter, x \in S}

(* ------------------------------- inputs -------------------------------- *)

EmailUser == <<"a", "@", "b", ".", "c", "o", "m">>

PlainUser == <<"b", "o", "b">>

UserIds == {None, Some(<<>>), Some(EmailUser), Some(PlainUser)}

TutorNames == {None, Some(<<>>), Some(<<"A", "d", "a">>)}

ConversationIds == {None, Some(<<>>), Some(<<"c", "1">>)}

Contexts == [userId : UserIds, tutorName : TutorNames]

Messages ==
    { <<"h", "i">>,
      <<"W", "h", "a", "t", "'", "s", " ", "M", "Y", " ", "E", "m", "a", "i", "l", "?">>,
      <<"m", "y", " ", "u", "s", "e", "r", " ", "i", "d">>,
      <<"m", "y", " ", "e", "-", "m", "a", "i", "l">> }

\* What the streamed completion may yield: a chunk's content, "" included.
Fragments ==
    { <<>>, <<"H", "e", "l", "l", "o">>, <<" ", "w", "o", "r", "l", "d">> }

ErrorDetails == { <<"connection reset by peer">>, <<"invalid key sk-123">> }

\* What either gateway call may raise.  ValidationError is a ValueError.
GatewayErrors ==
    [type : {"ValueError", "ValidationError", "Exception"}, detail : ErrorDetails]

\* An entry of follow_up_questions: Some(text) is a str, None a value that is
\* no str.
Why == Some(<<"W", "h", "y", "?">>)

HowSo == Some(<<"H", "o", "w", " ", "s", "o", "?">>)

Blank == Some(<<" ", " ", " ">>)

EightWords ==
    Some(<<"a", " ", "b", " ", "c", " ", "d", " ", "e", " ", "f", " ", "g", " ", "h">>)

\* What structured_response.follow_up_questions may be.
FollowUpResults ==
    { None, Some(<<>>), Some(<<Why>>), Some(<<Why, HowSo>>), Some(<<Why, Blank>>),
      Some(<<EightWords, Why>>), Some(<<None, Why>>) }

Pieces ==
    { <<"m", "y", " ">>, <<"M", "Y", " ">>, <<"e", "m", "a", "i", "l">>,
      <<"E", "m", "a", "i", "l">>, <<"u", "s", "e", "r", " ">>, <<"I", "d">>,
      <<"w", "h", "a", "t", "'", "s", " ">>, <<"m", "y">> }

\* The messages of PromptSpec: every concatenation of at most MaxParts pieces.
ComposedMessages == {Concat(ps) : ps \in SeqsUpTo(Pieces, MaxParts)}

(* ------------------------------ variables ------------------------------ *)

VARIABLES
    pc,                 \* where the turn's generator stands
    message,            \* the request's message
    context,            \* the request's context: [userId, tutorName]
    conversationId,     \* the request's conversationId
    streamInput,        \* the prompt messages given to chain.astream, or None
    received,           \* the fragments the streamed completion yielded so far
    accumulated_text,   \* the running buffer
    events,             \* the StreamedChatResponse events yielded so far
    mainError,          \* the exception the turn's outer try caught, or None
    structuredInput,    \* the input given to structured_chain.ainvoke, or None
    structuredCalls,    \* how many times ainvoke was called in this turn
    structuredOutcome,  \* what ainvoke did: a result, an exception, or None
    memory,             \* the conversation store read() reads: conversationId ->
                        \* history; no statement of get_chat_response writes it
    other,              \* the frame of a second turn, which the event loop is
                        \* not running now (the variables above but memory
                        \* are the frame of the turn it runs)
    env,                \* the four required environment variables
    service,            \* chat_router's chat_service: "unloaded", "ready",
                        \* or "failed" (the constructor raised)
    clients,            \* how many AzureChatOpenAI clients were created
    httpStatus          \* the HTTP error status the request was answered with,
                        \* or None

vars == <<pc, message, context, conversationId, streamInput, received,
          accumulated_text, events, mainError, structuredInput,
          structuredCalls, structuredOutcome, memory, other, env, service,
          clients, httpStatus>>

\* What a step of one turn leaves alone: the other turn's frame and the
\* module-level state of the router.
outside == <<other, env, service, clients, httpStatus>>

(* ----------------------- StreamedChatResponse -------------------------- *)

\* The model's three fields, with the defaults of the class.
StreamedChatResponse(text_chunk, follow_up_prompts, is_final) ==
    [textChunk |-> text_chunk, followUpPrompts |-> follow_up_prompts,
     isFinal |-> is_final]

(* --------------------------- the two prompts --------------------------- *)

SystemPrompt(tutor_name) ==
    <<"You are a helpful and engaging mentor named ">> \o tutor_name
    \o <<" who helps students learn. [...] Always refer to yourself as ">>
    \o tutor_name \o <<" and NOT as an AI assistant.">>

UserIdNote(user_id) ==
    <<"\n\n(Note: The user's registered email/ID is: ">> \o user_id \o <<")">>

MyEmail == <<"m", "y", " ", "e", "m", "a", "i", "l">>

WhatsMyEmail ==
    <<"w", "h", "a", "t", "'", "s", " ", "m", "y", " ", "e", "m", "a", "i", "l">>

MyUserId == <<"m", "y", " ", "u", "s", "e", "r", " ", "i", "d">>

\* Mutant of AsksForId: the phrases are looked for in the message as typed.
AsksForIdCaseSensitive(msg, user_id) ==
    /\ Contains(user_id, <<"@">>)
    /\ \/ Contains(msg, MyEmail)
       \/ Contains(msg, WhatsMyEmail)
       \/ Contains(msg, MyUserId)

\* The condition of the email/ID augmentation.
AsksForId(msg, user_id) ==
    /\ Contains(user_id, <<"@">>)
    /\ \/ Contains(Lower(msg), MyEmail)
       \/ Contains(Lower(msg), WhatsMyEmail)
       \/ Contains(Lower(msg), MyUserId)

HumanMessageContent(msg, user_id) ==
    IF AsksForId(msg, user_id) THEN msg \o UserIdNote(user_id) ELSE msg

\* The messages the chain sends: the system message and the human message.
ChatPrompt(msg, user_id, tutor_name) ==
    << [role |-> "system", content |-> SystemPrompt(tutor_name)],
       [role |-> "human", content |-> HumanMessageContent(msg, user_id)] >>

(* ------------------------- the outer handlers -------------------------- *)

ValueErrorTypes == {"ValueError", "ValidationError"}

UserIdRequired == <<"User ID must be provided in context.">>

TutorNameRequired == <<"Tutor name must be provided in context.">>

ConfigIssuePrefix == <<"I apologize, but there's a configuration issue: ">>

GenericErrorText ==
    <<"I apologize, but I encountered an error. Please try again later.">>

\* Mutant of TurnErrorEvent: the error event is not marked final.
TurnErrorEventNotFinal(e) ==
    IF e.type \in ValueErrorTypes
    THEN StreamedChatResponse(Some(ConfigIssuePrefix \o e.detail), None, FALSE)
    ELSE StreamedChatResponse(Some(GenericErrorText), None, FALSE)

\* The event the outer except clauses yield for exception e.
TurnErrorEvent(e) ==
    IF e.type \in ValueErrorTypes
    THEN StreamedChatResponse(Some(ConfigIssuePrefix \o e.detail), None, TRUE)
    ELSE StreamedChatResponse(Some(GenericErrorText), None, TRUE)

\* Mutant of FailTurn: no handler catches the exception; the generator ends
\* without an event.
FailTurnUnhandled(e) ==
    /\ mainError' = Some(e)
    /\ pc' = "done"
    /\ UNCHANGED events

\* An exception reaches the outer handlers: one terminal event, and the
\* generator returns.
FailTurn(e) ==
    /\ mainError' = Some(e)
    /\ events' = Append(events, TurnErrorEvent(e))
    /\ pc' = "done"

(* ------------------------------ the turn ------------------------------- *)

\* The locals of a get_chat_response generator that has not started.
IdleFrame ==
    [pc |-> "idle", message |-> <<>>,
     context |-> [userId |-> None, tutorName |-> None],
     conversationId |-> None, streamInput |-> None, received |-> <<>>,
     accumulated_text |-> <<>>, events |-> <<>>, mainError |-> None,
     structuredInput |-> None, structuredCalls |-> 0,
     structuredOutcome |-> None]

ConfigValue == <<"v">>

\* An environment with the four required variables set.
FullEnv ==
    [AZURE_OPENAI_API_VERSION |-> Some(ConfigValue),
     AZURE_OPENAI_DEPLOYMENT_NAME |-> Some(ConfigValue),
     AZURE_OPENAI_ENDPOINT |-> Some(ConfigValue),
     AZURE_OPENAI_API_KEY |-> Some(ConfigValue)]

\* The service is constructed and no request has arrived.
Init ==
    /\ pc = "idle"
    /\ message = <<>>
    /\ context = [userId |-> None, tutorName |-> None]
    /\ conversationId = None
    /\ streamInput = None
    /\ received = <<>>
    /\ accumulated_text = <<>>
    /\ events = <<>>
    /\ mainError = None
    /\ structuredInput = None
    /\ structuredCalls = 0
    /\ structuredOutcome = None
    /\ memory = [c \in {} |-> <<>>]
    /\ other = IdleFrame
    /\ env = FullEnv
    /\ service = "ready"
    /\ clients = 2
    /\ httpStatus = None

\* get_chat_response(message, context) up to its first suspension: the
\* context checks, the prompt, and the call of chain.astream.
StartTurn(msg, ctx, cid) ==
    /\ pc = "idle"
    /\ message' = msg
    /\ context' = ctx
    /\ conversationId' = cid
    /\ IF Falsy(ctx.userId)
       THEN /\ FailTurn([type |-> "ValueError", detail |-> UserIdRequired])
            /\ UNCHANGED streamInput
       ELSE IF Falsy(ctx.tutorName)
       THEN /\ FailTurn([type |-> "ValueError", detail |-> TutorNameRequired])
            /\ UNCHANGED streamInput
       ELSE /\ streamInput' =
                  Some(ChatPrompt(msg, Get(ctx.userId), Get(ctx.tutorName)))
            /\ pc' = "streaming"
            /\ UNCHANGED <<events, mainError>>
    /\ UNCHANGED <<received, accumulated_text, structuredInput,
                   structuredCalls, structuredOutcome, memory>>
    /\ UNCHANGED outside

\* if hasattr(chunk, 'content') and chunk.content
ChunkHasContent(chunk_text) == chunk_text # <<>>

\* Mutant of Accumulate: the buffer is assigned, not extended.
AccumulateOverwrites(acc, chunk_text) == chunk_text

\* accumulated_text += chunk_text
Accumulate(acc, chunk_text) == acc \o chunk_text

\* Mutant of ChunkEvent: follow_up_prompts is given an empty list.
ChunkEventWithEmptyPrompts(chunk_text) ==
    StreamedChatResponse(Some(chunk_text), Some(<<>>), FALSE)

ChunkEvent(chunk_text) == StreamedChatResponse(Some(chunk_text), None, FALSE)

\* One iteration of the async for: the streamed completion yields a chunk.
StreamChunk(chunk_text) ==
    /\ pc = "streaming"
    /\ Len(received) < MaxFragments
    /\ received' = Append(received, chunk_text)
    /\ IF ChunkHasContent(chunk_text)
       THEN /\ accumulated_text' = Accumulate(accumulated_text, chunk_text)
            /\ events' = Append(events, ChunkEvent(chunk_text))
       ELSE UNCHANGED <<accumulated_text, events>>
    /\ UNCHANGED <<pc, message, context, conversationId, streamInput, mainError,
                   structuredInput, structuredCalls, structuredOutcome, memory>>
    /\ UNCHANGED outside

\* chain.astream raises, when it is called or between two chunks.
StreamFail(e) ==
    /\ pc = "streaming"
    /\ FailTurn(e)
    /\ UNCHANGED <<message, context, conversationId, streamInput, received,
                   accumulated_text, structuredInput, structuredCalls,
                   structuredOutcome, memory>>
    /\ UNCHANGED outside

\* Mutant of StructuredInput: the augmented human message is passed on.
StructuredInputAugmented(msg, acc) ==
    [user_original_query |-> HumanMessageContent(msg, Get(context.userId)),
     ai_main_response |-> acc]

StructuredInput(msg, acc) ==
    [user_original_query |-> msg, ai_main_response |-> acc]

\* The stream ends: the follow-up prompt is built and ainvoke is called.
StreamEnd ==
    /\ pc = "streaming"
    /\ structuredInput' = Some(StructuredInput(message, accumulated_text))
    /\ structuredCalls' = structuredCalls + 1
    /\ pc' = "structured"
    /\ UNCHANGED <<message, context, conversationId, streamInput, received,
                   accumulated_text, events, mainError, structuredOutcome, memory>>
    /\ UNCHANGED outside

\* Python truthiness of an Optional[List]: None and [] are falsy.
Truthy(follow_ups) == follow_ups # None /\ Get(follow_ups) # <<>>

\* Mutant of AllValid: q.strip() is not tested.
AllValidIgnoresBlank(qs) == \A i \in 1..Len(qs) : qs[i] # None

\* all(isinstance(q, str) and q.strip() for q in follow_ups)
AllValid(qs) ==
    \A i \in 1..Len(qs) : qs[i] # None /\ StripTruthy(Get(qs[i]))

\* Mutant of FilterFollowUps: a list with an over-long entry is discarded too.
FilterDiscardsLong(follow_ups) ==
    IF /\ Truthy(follow_ups)
       /\ \/ ~AllValid(Get(follow_ups))
          \/ \E i \in 1..Len(Get(follow_ups)) :
                WordCount(Get(Get(follow_ups)[i])) > 7
    THEN None
    ELSE follow_ups

\* The defensive filter: a list with an invalid entry is discarded; a list
\* with an over-long entry is only logged.
FilterFollowUps(follow_ups) ==
    IF Truthy(follow_ups) /\ ~AllValid(Get(follow_ups)) THEN None ELSE follow_ups

\* Mutant of FinalEvent: the terminal event repeats the whole answer.
FinalEventRepeatsText(follow_ups) ==
    StreamedChatResponse(Some(accumulated_text),
                         IF Truthy(follow_ups) THEN follow_ups ELSE None, TRUE)

\* Mutant of FinalEvent: no "else None"; an empty list is sent as it is.
FinalEventKeepsEmpty(follow_ups) == StreamedChatResponse(None, follow_ups, TRUE)

\* The terminal event of a turn whose structured completion returned.
FinalEvent(follow_ups) ==
    StreamedChatResponse(None, IF Truthy(follow_ups) THEN follow_ups ELSE None, TRUE)

\* ainvoke returns a structured_response with these follow_up_questions.
StructuredReturn(follow_up_questions) ==
    /\ pc = "structured"
    /\ structuredOutcome' = Some([result |-> follow_up_questions])
    /\ events' = Append(events, FinalEvent(FilterFollowUps(follow_up_questions)))
    /\ pc' = "done"
    /\ UNCHANGED <<message, context, conversationId, streamInput, received,
                   accumulated_text, mainError, structuredInput, structuredCalls,
                   memory>>
    /\ UNCHANGED outside

\* The event the inner except clauses yield: a final event without follow-ups.
FollowUpErrorEvent(e) == StreamedChatResponse(None, None, TRUE)

\* Mutant of StructuredFail: no inner try; the exception reaches the outer
\* handlers.
StructuredFailEscalates(e) ==
    /\ pc = "structured"
    /\ structuredOutcome' = Some([error |-> e])
    /\ FailTurn(e)
    /\ UNCHANGED <<message, context, conversationId, streamInput, received,
                   accumulated_text, structuredInput, structuredCalls, memory>>
    /\ UNCHANGED outside

\* ainvoke raises: the inner handlers swallow the exception.
StructuredFail(e) ==
    /\ pc = "structured"
    /\ structuredOutcome' = Some([error |-> e])
    /\ events' = Append(events, FollowUpErrorEvent(e))
    /\ pc' = "done"
    /\ UNCHANGED <<message, context, conversationId, streamInput, received,
                   accumulated_text, mainError, structuredInput, structuredCalls,
                   memory>>
    /\ UNCHANGED outside

\* The conversation store's read: the history of a conversation, or None.
read(cid) == IF cid \in DOMAIN memory THEN Some(memory[cid]) ELSE None

\* The turn is over and the next request arrives: a fresh generator.
NewTurn ==
    /\ pc = "done"
    /\ pc' = "idle"
    /\ message' = <<>>
    /\ context' = [userId |-> None, tutorName |-> None]
    /\ conversationId' = None
    /\ streamInput' = None
    /\ received' = <<>>
    /\ accumulated_text' = <<>>
    /\ events' = <<>>
    /\ mainError' = None
    /\ structuredInput' = None
    /\ structuredCalls' = 0
    /\ structuredOutcome' = None
    /\ UNCHANGED memory
    /\ UNCHANGED outside

Next ==
    \/ \E msg \in Messages, ctx \in Contexts, cid \in ConversationIds :
          StartTurn(msg, ctx, cid)
    \/ \E chunk_text \in Fragments : StreamChunk(chunk_text)
    \/ \E e \in GatewayErrors : StreamFail(e)
    \/ StreamEnd
    \/ \E follow_up_questions \in FollowUpResults :
          StructuredReturn(follow_up_questions)
    \/ \E e \in GatewayErrors : StructuredFail(e)
    \/ NewTurn

Spec == Init /\ [][Next]_vars

\* The gateway answers: the streamed completion yields, ends or fails, and the
\* structured completion returns or fails.
StreamAnswers ==
    \/ \E chunk_text \in Fragments : StreamChunk(chunk_text)
    \/ \E e \in GatewayErrors : StreamFail(e)
    \/ StreamEnd

StructuredAnswers ==
    \/ \E follow_up_questions \in FollowUpResults :
          StructuredReturn(follow_up_questions)
    \/ \E e \in GatewayErrors : StructuredFail(e)

\* Spec with every gateway call eventually answered.
FairSpec == Spec /\ WF_vars(StreamAnswers) /\ WF_vars(StructuredAnswers)

\* Only the start of a turn, over the composed messages.
PromptNext ==
    /\ pc = "idle"
    /\ \E msg \in ComposedMessages, ctx \in Contexts, cid \in ConversationIds :
          StartTurn(msg, ctx, cid)

PromptSpec == Init /\ [][PromptNext]_vars

(* ----------------------------- two turns ------------------------------- *)

\* The locals of the turn the event loop is running.
Frame ==
    [pc |-> pc, message |-> message, context |-> context,
     conversationId |-> conversationId, streamInput |-> streamInput,
     received |-> received, accumulated_text |-> accumulated_text,
     events |-> events, mainError |-> mainError,
     structuredInput |-> structuredInput, structuredCalls |-> structuredCalls,
     structuredOutcome |-> structuredOutcome]

\* Mutant of Switch: the buffer is an attribute of the shared service
\* instance, not a local of the generator.
SwitchSharingBuffer ==
    /\ other' = Frame
    /\ pc' = other.pc
    /\ message' = other.message
    /\ context' = other.context
    /\ conversationId' = other.conversationId
    /\ streamInput' = other.streamInput
    /\ received' = other.received
    /\ events' = other.events
    /\ mainError' = other.mainError
    /\ structuredInput' = other.structuredInput
    /\ structuredCalls' = other.structuredCalls
    /\ structuredOutcome' = other.structuredOutcome
    /\ UNCHANGED <<accumulated_text, memory, env, service, clients, httpStatus>>

\* The event loop leaves the turn it runs at a suspension point (the async for,
\* the await, a yield, or before the first step) and resumes the other one.
\* Every local of get_chat_response belongs to its generator; the two turns
\* share only the service instance, which no statement of a turn assigns.
Switch ==
    /\ other' = Frame
    /\ pc' = other.pc
    /\ message' = other.message
    /\ context' = other.context
    /\ conversationId' = other.conversationId
    /\ streamInput' = other.streamInput
    /\ received' = other.received
    /\ accumulated_text' = other.accumulated_text
    /\ events' = other.events
    /\ mainError' = other.mainError
    /\ structuredInput' = other.structuredInput
    /\ structuredCalls' = other.structuredCalls
    /\ structuredOutcome' = other.structuredOutcome
    /\ UNCHANGED <<memory, env, service, clients, httpStatus>>

\* The inputs of the specifications with two turns.
TwoTurnMessages ==
    { <<"h", "i">>, <<"m", "y", " ", "u", "s", "e", "r", " ", "i", "d">> }

TwoTurnContext ==
    [userId |-> Some(EmailUser), tutorName |-> Some(<<"A", "d", "a">>)]

TwoTurnConversationIds == { Some(<<"c", "1">>), Some(<<"c", "2">>) }

TwoTurnFragments == { <<"H", "e", "l", "l", "o">>, <<" ", "w", "o", "r", "l", "d">> }

TwoTurnErrors == { [type |-> "Exception", detail |-> <<"connection reset by peer">>] }

TwoTurnResults == { None, Some(<<Why>>) }

\* The gateway's answers to the turn that runs.
TwoTurnGateway ==
    \/ \E chunk_text \in TwoTurnFragments : StreamChunk(chunk_text)
    \/ \E e \in TwoTurnErrors : StreamFail(e)
    \/ StreamEnd
    \/ \E follow_up_questions \in TwoTurnResults :
          StructuredReturn(follow_up_questions)
    \/ \E e \in TwoTurnErrors : StructuredFail(e)

SeqStart ==
    /\ pc = "idle"
    /\ \E msg \in TwoTurnMessages, cid \in TwoTurnConversationIds :
          StartTurn(msg, TwoTurnContext, cid)

\* The first turn is over; its frame is set aside and the next request gets a
\* fresh generator.
NextRequest ==
    /\ pc = "done"
    /\ other.pc = "idle"
    /\ Switch

\* Two turns, one after the other.
SeqNext == SeqStart \/ TwoTurnGateway \/ NextRequest

SeqSpec == Init /\ [][SeqNext]_vars

\* A turn starts on a conversation other than the other turn's.
ConcStart ==
    /\ pc = "idle"
    /\ \E msg \in TwoTurnMessages, cid \in TwoTurnConversationIds :
          /\ cid # other.conversationId
          /\ StartTurn(msg, TwoTurnContext, cid)

\* Two turns on different conversations, interleaved at every suspension.
ConcNext == ConcStart \/ TwoTurnGateway \/ Switch

ConcSpec == Init /\ [][ConcNext]_vars

(* ------------------- construction and the chat route ------------------- *)

\* What os.getenv may return for a required variable.
EnvValues == {None, Some(<<>>), Some(<<" ", " ">>), Some(ConfigValue)}

Envs ==
    [AZURE_OPENAI_API_VERSION : EnvValues, AZURE_OPENAI_DEPLOYMENT_NAME : EnvValues,
     AZURE_OPENAI_ENDPOINT : EnvValues, AZURE_OPENAI_API_KEY : EnvValues]

\* str.isspace()
IsSpace(t) == t # <<>> /\ \A i \in 1..Len(t) : t[i] \in Whitespace

\* Mutant of IsMissing: isspace() is not tested.
IsMissingUnlessBlank(v) == v = None \/ v = Some(<<>>)

\* not v or v.isspace()
IsMissing(v) == v = None \/ v = Some(<<>>) \/ IsSpace(Get(v))

MissingVars(e) == {k \in DOMAIN e : IsMissing(e[k])}

\* chat_router is imported: CodeAssistChatService() is constructed.  With a
\* variable missing it raises ChatServiceError before any client is made;
\* otherwise it makes the two clients, and raises ChatServiceError if making
\* one fails (created of them were made).
LoadRouter(created) ==
    /\ service = "unloaded"
    /\ IF MissingVars(env) # {}
       THEN /\ service' = "failed"
            /\ clients' = 0
       ELSE /\ clients' = created
            /\ service' = IF created = 2 THEN "ready" ELSE "failed"
    /\ UNCHANGED <<pc, message, context, conversationId, streamInput, received,
                   accumulated_text, events, mainError, structuredInput,
                   structuredCalls, structuredOutcome, memory, other, env,
                   httpStatus>>

\* The parameters of get_chat_response, and the keywords the handler calls
\* it with.
ServiceParameters == {"message", "context"}

CallKeywords == {"message", "conversationId", "context"}

\* The status of the HTTPException the handler's except clauses raise.
HandlerErrorStatus(type) == IF type \in ValueErrorTypes THEN 400 ELSE 500

\* ChatRequest's validation: the four fields are strings.
ShapeValid(ctx, cid) == ctx.userId # None /\ ctx.tutorName # None /\ cid # None

\* POST /aitutor/chat with a shape-valid request.  The call of
\* get_chat_response binds its keywords to the parameters; a keyword that is
\* no parameter raises TypeError, which the handler turns into an
\* HTTPException.
chat(msg, ctx, cid) ==
    /\ service = "ready"
    /\ pc = "idle"
    /\ httpStatus = None
    /\ conversationId = None
    /\ ShapeValid(ctx, cid)
    /\ IF CallKeywords \subseteq ServiceParameters
       THEN StartTurn(msg, ctx, cid)
       ELSE /\ httpStatus' = Some(HandlerErrorStatus("TypeError"))
            /\ message' = msg
            /\ context' = ctx
            /\ conversationId' = cid
            /\ UNCHANGED <<pc, streamInput, received, accumulated_text, events,
                           mainError, structuredInput, structuredCalls,
                           structuredOutcome, memory, other, env, service,
                           clients>>

\* A request that fails ChatRequest's validation never reaches the handler:
\* the application answers 422.
RejectRequest(msg, ctx, cid) ==
    /\ service = "ready"
    /\ pc = "idle"
    /\ httpStatus = None
    /\ conversationId = None
    /\ ~ShapeValid(ctx, cid)
    /\ httpStatus' = Some(422)
    /\ message' = msg
    /\ context' = ctx
    /\ conversationId' = cid
    /\ UNCHANGED <<pc, streamInput, received, accumulated_text, events,
                   mainError, structuredInput, structuredCalls,
                   structuredOutcome, memory, other, env, service, clients>>

\* The request was answered with an error; the next one arrives.
NextHttpRequest ==
    /\ httpStatus # None
    /\ httpStatus' = None
    /\ message' = <<>>
    /\ context' = [userId |-> None, tutorName |-> None]
    /\ conversationId' = None
    /\ UNCHANGED <<pc, streamInput, received, accumulated_text, events,
                   mainError, structuredInput, structuredCalls,
                   structuredOutcome, memory, other, env, service, clients>>

\* The process starts: nothing is constructed yet, in any environment.
RouterInit ==
    /\ pc = "idle"
    /\ message = <<>>
    /\ context = [userId |-> None, tutorName |-> None]
    /\ conversationId = None
    /\ streamInput = None
    /\ received = <<>>
    /\ accumulated_text = <<>>
    /\ events = <<>>
    /\ mainError = None
    /\ structuredInput = None
    /\ structuredCalls = 0
    /\ structuredOutcome = None
    /\ memory = [c \in {} |-> <<>>]
    /\ other = IdleFrame
    /\ env \in Envs
    /\ service = "unloaded"
    /\ clients = 0
    /\ httpStatus = None

RouterNext ==
    \/ \E created \in 0..2 : LoadRouter(created)
    \/ \E msg \in Messages, ctx \in Contexts, cid \in ConversationIds :
          chat(msg, ctx, cid)
    \/ \E msg \in Messages, ctx \in Contexts, cid \in ConversationIds :
          RejectRequest(msg, ctx, cid)
    \/ NextHttpRequest

\* The application from its start: the router's load, then requests.
RouterSpec == RouterInit /\ [][RouterNext]_vars

(* ------------------------------ properties ----------------------------- *)

Last(s) == s[Len(s)]

IsNonEmpty(f) == f # <<>>

\* One isFinal=false event per non-empty fragment, in order.
TextEventsOf(frs) ==
    LET kept == SelectSeq(frs, IsNonEmpty)
    IN  [i \in 1..Len(kept) |->
           [textChunk |-> {kept[i]}, followUpPrompts |-> {}, isFinal |-> FALSE]]

FinalCount == Cardinality({i \in 1..Len(events) : events[i].isFinal})

StreamFailed == streamInput # None /\ mainError # None

StructuredFailed ==
    structuredOutcome # None /\ "error" \in DOMAIN Get(structuredOutcome)

StructuredReturned ==
    structuredOutcome # None /\ "result" \in DOMAIN Get(structuredOutcome)

\* C1: a finished turn has emitted exactly one isFinal=true event, and it is
\* the last one; while the turn runs no isFinal=true event has been emitted,
\* so no event ever follows one.
C1_OneFinalEventLast ==
    /\ pc = "done" => /\ FinalCount = 1
                      /\ events # <<>>
                      /\ Last(events).isFinal
    /\ pc # "done" => FinalCount = 0

C1_Witness ==
    /\ pc = "done"
    /\ StructuredFailed
    /\ Len(events) = 3

\* C2: with every gateway call eventually answered, a started turn eventually
\* has emitted a terminal event and stopped, wherever it fails.
C2_TurnTerminates ==
    (pc # "idle") ~> (pc = "done" /\ events # <<>> /\ Last(events).isFinal)

C2_Witness ==
    /\ pc = "done"
    /\ StreamFailed
    /\ received # <<>>
    /\ Last(events).isFinal

\* C3 (as claimed): a turn whose userId, tutorName or conversationId is missing
\* or empty emits exactly one event, a terminal one with followUpPrompts=null
\* and a non-empty textChunk.
C3_InvalidTurnSingleTerminal ==
    (/\ pc # "idle"
     /\ \/ Falsy(context.userId)
        \/ Falsy(context.tutorName)
        \/ Falsy(conversationId))
    => /\ pc = "done"
       /\ Len(events) = 1
       /\ events[1].isFinal
       /\ events[1].followUpPrompts = None
       /\ events[1].textChunk # None
       /\ Get(events[1].textChunk) # <<>>

\* C4 (as claimed): the isFinal=true event never carries a textChunk.
C4_FinalNeverCarriesText ==
    \A i \in 1..Len(events) : events[i].isFinal => events[i].textChunk = None

\* C4 (amended): the isFinal=true event carries a textChunk exactly when the
\* turn failed (a context check or the streamed completion): then it carries
\* no followUpPrompts; in a turn whose streamed completion finished its
\* textChunk is null.
C4_FinalCarriesTextOnlyOnFailure ==
    \A i \in 1..Len(events) :
       events[i].isFinal =>
          IF mainError # None
          THEN /\ events[i].textChunk # None
               /\ events[i].followUpPrompts = None
          ELSE events[i].textChunk = None

C4_Witness ==
    /\ pc = "done"
    /\ mainError = None
    /\ Last(events).followUpPrompts # None
    /\ Last(events).textChunk = None

\* C5: when the streamed completion finished and the structured completion
\* failed, the events are the text-chunk events followed by one terminal event
\* with followUpPrompts=null and no text, and the turn did not fail.
C5_FollowUpFailureContained ==
    StructuredFailed =>
       /\ pc = "done"
       /\ mainError = None
       /\ events = TextEventsOf(received)
                     \o << [textChunk |-> {}, followUpPrompts |-> {},
                            isFinal |-> TRUE] >>

C5_Witness ==
    /\ StructuredFailed
    /\ Get(structuredOutcome).error.type = "ValidationError"
    /\ Len(events) = 2

\* C6 (as claimed): when the streamed completion fails, the events are the
\* text-chunk events emitted before the failure followed by one terminal event
\* whose textChunk is a user-safe error message (it holds none of the error's
\* detail); the structured completion is not invoked and the turn stops.
C6_StreamFailureTerminal ==
    StreamFailed =>
       /\ pc = "done"
       /\ structuredCalls = 0
       /\ Len(events) = Len(TextEventsOf(received)) + 1
       /\ SubSeq(events, 1, Len(events) - 1) = TextEventsOf(received)
       /\ Last(events).isFinal
       /\ Last(events).textChunk # None
       /\ ~Contains(Get(Last(events).textChunk), Get(mainError).detail)

\* C7 (as claimed): when the streamed completion fails, the terminal event is
\* the same whatever the detail of the error.
C7_ErrorDetailNotEchoed ==
    StreamFailed =>
       \A d \in ErrorDetails :
          Last(events) = TurnErrorEvent([type |-> Get(mainError).type, detail |-> d])

\* C8: the isFinal=false events are one per non-empty fragment, in order, each
\* carrying that fragment; the buffer given to follow-up generation is the
\* in-order concatenation of the fragments.
C8_FragmentsRelayedAndAccumulated ==
    /\ pc \in {"streaming", "structured"} => events = TextEventsOf(received)
    /\ pc = "done" =>
          SubSeq(events, 1, Len(events) - 1) = TextEventsOf(received)
    /\ structuredInput # None =>
          Get(structuredInput).ai_main_response = Concat(received)

C8_Witness ==
    /\ pc = "done"
    /\ received = << <<"H", "e", "l", "l", "o">>, <<" ", "w", "o", "r", "l", "d">> >>
    /\ structuredInput # None
    /\ Get(structuredInput).ai_main_response =
          <<"H", "e", "l", "l", "o", " ", "w", "o", "r", "l", "d">>
    /\ Len(events) = 3

ClaimedPhrases ==
    { <<"m", "y", " ", "e", "m", "a", "i", "l">>,
      <<"w", "h", "a", "t", "'", "s", " ", "m", "y", " ", "e", "m", "a", "i", "l">>,
      <<"m", "y", " ", "u", "s", "e", "r", " ", "i", "d">> }

\* s contains p, letters compared without regard to case.
ContainsIgnoringCase(s, p) ==
    \E i \in 0..(Len(s) - Len(p)) :
       \A k \in 1..Len(p) : LowerChar(s[i + k]) = LowerChar(p[k])

\* C9: the human message sent to the streamed completion contains the userId
\* note if and only if userId contains '@' and the message contains, case
\* ignored, one of the three phrases; otherwise it is the message unchanged.
C9_NoteIffAsked ==
    streamInput # None =>
       LET human == Get(streamInput)[2].content
           uid == Get(context.userId)
           asked == /\ \E i \in 1..Len(uid) : uid[i] = "@"
                    /\ \E p \in ClaimedPhrases : ContainsIgnoringCase(message, p)
       IN  /\ Contains(human, UserIdNote(uid)) <=> asked
           /\ ~asked => human = message

C9_Witness ==
    /\ streamInput # None
    /\ message = <<"M", "Y", " ", "E", "m", "a", "i", "l">>
    /\ context.userId = Some(EmailUser)
    /\ Get(streamInput)[2].content = message \o UserIdNote(EmailUser)

\* C10 (as claimed): after a successful turn on a conversation id, read of
\* that id returns a history whose last two messages are the human message
\* (the original input) and the ai message (the accumulated text).
C10_TurnCommitted ==
    (pc = "done" /\ mainError = None /\ conversationId # None) =>
       LET h == read(Get(conversationId))
       IN  /\ h # None
           /\ Len(Get(h)) >= 2
           /\ SubSeq(Get(h), Len(Get(h)) - 1, Len(Get(h))) =
                 << [role |-> "human", content |-> message],
                    [role |-> "ai", content |-> accumulated_text] >>

\* C14 (as claimed): in every event exactly one of textChunk and
\* followUpPrompts is non-null.
C14_ExactlyOnePopulated ==
    \A i \in 1..Len(events) :
       (events[i].textChunk # None) # (events[i].followUpPrompts # None)

\* C14 (amended): no event has both textChunk and followUpPrompts non-null;
\* both are null only on the isFinal=true event of a turn whose streamed
\* completion finished and that has no follow-ups to send.
C14_AtMostOnePopulated ==
    \A i \in 1..Len(events) :
       /\ ~(events[i].textChunk # None /\ events[i].followUpPrompts # None)
       /\ (events[i].textChunk = None /\ events[i].followUpPrompts = None)
          => /\ events[i].isFinal
             /\ mainError = None
             /\ structuredOutcome # None

C14_Witness ==
    /\ pc = "done"
    /\ Len(events) = 2
    /\ events[1].textChunk # None
    /\ events[2].textChunk = None
    /\ events[2].followUpPrompts = None

\* An entry of a follow-up list that is a str with a non-whitespace character.
IsNonBlankStr(q) ==
    /\ q # {}
    /\ \E c \in {Get(q)[i] : i \in 1..Len(Get(q))} : c \notin {" ", "\t", "\n"}

\* C15 (as claimed): when the structured completion succeeds, the terminal
\* event's followUpPrompts is the result's followUpQuestions list, and the
\* empty list when that is absent or empty.
C15_FollowUpsEqualResult ==
    StructuredReturned =>
       LET fq == Get(structuredOutcome).result
       IN  Last(events).followUpPrompts = IF fq = {} THEN {<<>>} ELSE fq

\* C15 (amended): when the structured completion succeeds with a non-empty
\* followUpQuestions list whose entries are all non-blank strings, the
\* terminal event's followUpPrompts is that list; it is null when
\* followUpQuestions is absent or empty, or holds a non-string or blank entry.
C15_FollowUpsEqualValidResult ==
    StructuredReturned =>
       LET fq == Get(structuredOutcome).result
           sendable == /\ fq # {}
                       /\ Get(fq) # <<>>
                       /\ \A i \in 1..Len(Get(fq)) : IsNonBlankStr(Get(fq)[i])
       IN  /\ pc = "done"
           /\ Last(events).isFinal
           /\ Last(events).followUpPrompts = IF sendable THEN fq ELSE {}

C15_Witness ==
    /\ StructuredReturned
    /\ Get(structuredOutcome).result = Some(<<>>)
    /\ Last(events).followUpPrompts = None

\* C16: in a turn whose userId or tutorName is missing or empty, neither the
\* streamed nor the structured completion is ever invoked.
C16_NoModelCallOnInvalidContext ==
    (/\ pc # "idle"
     /\ \/ context.userId \in {{}, {<<>>}}
        \/ context.tutorName \in {{}, {<<>>}})
    => /\ streamInput = {}
       /\ received = <<>>
       /\ structuredInput = {}
       /\ structuredCalls = 0

C16_Witness ==
    /\ pc = "done"
    /\ context.userId = Some(EmailUser)
    /\ context.tutorName = Some(<<>>)
    /\ streamInput = None

\* C17: the structured completion is invoked at most once, only after the
\* streamed completion ended without failure and its text-chunk events were
\* emitted, with the original message and the whole buffer as input.
C17_StructuredOnceAfterStream ==
    /\ structuredCalls \in {0, 1}
    /\ pc \in {"idle", "streaming"} => structuredCalls = 0
    /\ (structuredCalls = 0) = (structuredInput = {})
    /\ structuredCalls = 1 =>
          /\ pc \in {"structured", "done"}
          /\ mainError = {}
          /\ streamInput # {}
          /\ SubSeq(events, 1, Len(TextEventsOf(received))) = TextEventsOf(received)
          /\ structuredInput =
                {[user_original_query |-> message,
                  ai_main_response |-> Concat(received)]}

C17_Witness ==
    /\ structuredCalls = 1
    /\ Get(streamInput)[2].content # message
    /\ Get(structuredInput).user_original_query = message
    /\ received # <<>>

\* C18: a follow-up list with a non-string or blank entry is discarded as a
\* whole (followUpPrompts=null); a list of non-blank strings is passed on
\* unchanged, over-long entries included.
C18_DefensiveFilter ==
    (StructuredReturned /\ Get(structuredOutcome).result \notin {{}, {<<>>}}) =>
       LET fq == Get(structuredOutcome).result
       IN  Last(events).followUpPrompts =
              IF \E i \in 1..Len(Get(fq)) : ~IsNonBlankStr(Get(fq)[i])
              THEN {}
              ELSE fq

C18_Witness ==
    /\ StructuredReturned
    /\ Get(structuredOutcome).result = Some(<<EightWords, Why>>)
    /\ Last(events).followUpPrompts = Some(<<EightWords, Why>>)

\* C19: followUpPrompts is null or a non-empty list of non-blank strings in
\* every event, and non-null only on the terminal event of a turn whose
\* streamed and structured completions both succeeded.
C19_PromptsNullOrNonEmpty ==
    \A i \in 1..Len(events) :
       events[i].followUpPrompts # {} =>
          LET fs == Get(events[i].followUpPrompts)
          IN  /\ fs # <<>>
              /\ \A k \in 1..Len(fs) : IsNonBlankStr(fs[k])
              /\ events[i].isFinal
              /\ i = Len(events)
              /\ mainError = {}
              /\ StructuredReturned

C19_Witness ==
    /\ pc = "done"
    /\ Last(events).followUpPrompts = Some(<<Why, HowSo>>)

\* C11 (as claimed): when a turn follows a finished successful turn on the
\* same conversationId, the prompt sent to the streamed completion is the
\* system message, the first turn's human and ai messages, then the second
\* turn's human message.
C11_SecondPromptHasFirstPair ==
    (/\ streamInput # None
     /\ other.pc = "done"
     /\ other.mainError = None
     /\ other.conversationId = conversationId)
    => Get(streamInput) =
          << [role |-> "system",
              content |-> SystemPrompt(Get(context.tutorName))],
             [role |-> "human", content |-> other.message],
             [role |-> "ai", content |-> other.accumulated_text],
             [role |-> "human",
              content |-> HumanMessageContent(message, Get(context.userId))] >>

\* What a turn with frame f emits when it runs alone: the text-chunk events of
\* its own fragments, then the terminal event of its own outcome.
AloneEvents(f) ==
    TextEventsOf(f.received)
    \o (IF f.pc # "done" THEN <<>>
        ELSE IF f.mainError # None THEN <<TurnErrorEvent(Get(f.mainError))>>
        ELSE IF "error" \in DOMAIN Get(f.structuredOutcome)
             THEN <<FollowUpErrorEvent(Get(f.structuredOutcome).error)>>
        ELSE <<FinalEvent(FilterFollowUps(Get(f.structuredOutcome).result))>>)

BuiltFromOwnInputs(f) ==
    f.pc # "idle" =>
       /\ f.streamInput =
             IF f.context.userId \in {{}, {<<>>}}
                \/ f.context.tutorName \in {{}, {<<>>}}
             THEN None
             ELSE Some(ChatPrompt(f.message, Get(f.context.userId),
                                  Get(f.context.tutorName)))
       /\ f.events = AloneEvents(f)
       /\ f.accumulated_text = Concat(f.received)
       /\ f.structuredInput \in
             {None, Some([user_original_query |-> f.message,
                          ai_main_response |-> Concat(f.received)])}

\* C20: two turns on different conversations, interleaved at the suspension
\* points: each turn's prompt, events and follow-up buffer are built from its
\* own message, context and fragments only.
C20_TurnsDoNotInterfere ==
    /\ BuiltFromOwnInputs(Frame)
    /\ BuiltFromOwnInputs(other)

C20_Witness ==
    /\ pc = "structured"
    /\ other.pc = "streaming"
    /\ conversationId # other.conversationId
    /\ message # other.message
    /\ Len(received) = 2
    /\ other.received = << <<" ", "w", "o", "r", "l", "d">> >>

\* C12 (as claimed): the chat handler answers no shape-valid request with an
\* HTTP error status: it starts the turn and returns its event stream.
C12_ValidRequestStreams ==
    (conversationId # {} /\ context.userId # {} /\ context.tutorName # {})
    => /\ httpStatus = {}
       /\ pc # "idle"

\* A required variable that is missing, empty or only whitespace.
ClaimedMissing(v) ==
    \/ v = {}
    \/ \A c \in {Get(v)[i] : i \in 1..Len(Get(v))} : c \in {" ", "\t", "\n"}

\* C13: with one of the four required variables missing, empty or only
\* whitespace, constructing the service fails before a client is created,
\* and no chat request is ever served.
C13_MissingConfigFailsFast ==
    (service # "unloaded" /\ \E k \in DOMAIN env : ClaimedMissing(env[k]))
    => /\ service = "failed"
       /\ clients = 0
       /\ httpStatus = {}
       /\ conversationId = {}
       /\ pc = "idle"
       /\ events = <<>>

C13_Witness ==
    /\ service = "failed"
    /\ clients = 0
    /\ env = [FullEnv EXCEPT !.AZURE_OPENAI_API_KEY = Some(<<" ", " ">>)]

=============================================================================
